---- MODULE Spec2Model ----
(***************************************************************************)
(* Model of cfc_downloads_report.py: the SendOwl gateway calls             *)
(* (fetch_order, fetch_order_downloads), the PDF report builder            *)
(* (generate_pdf_bytes with its helpers) and the Streamlit flow build_ui.  *)
(*                                                                         *)
(* Python values are records [t, n, s, l]: t is the type tag, n the value  *)
(* of an int, s the code points of a str, l the elements of a list.        *)
(* A dict is a record whose fields are its keys; a key the dict does not   *)
(* have holds Absent.  Strings are sequences of Unicode code points.       *)
(* Floats are exact rationals [num, den]; binary rounding is not modelled. *)
(* The PDF engine (fpdf) is an external library: the model records the     *)
(* text of every cell() call the code makes, in order.                     *)
(***************************************************************************)
EXTENDS Integers, Sequences, FiniteSets, TLC

(* ---------------------------------------------------------------------- *)
(* Bounds of the model                                                     *)
(* ---------------------------------------------------------------------- *)
MaxStrLen == 2
MaxId == 4
MaxDownloads == 2

(* ---------------------------------------------------------------------- *)
(* Python values                                                           *)
(* ---------------------------------------------------------------------- *)
Absent == [t |-> "absent", n |-> 0, s |-> <<>>, l |-> <<>>]
None == [t |-> "none", n |-> 0, s |-> <<>>, l |-> <<>>]
PyInt(i) == [t |-> "int", n |-> i, s |-> <<>>, l |-> <<>>]
PyStr(cs) == [t |-> "str", n |-> 0, s |-> cs, l |-> <<>>]
PyList(xs) == [t |-> "list", n |-> 0, s |-> <<>>, l |-> xs]

\* dict.get(key): None when the key is missing
Get(d, k) == IF d[k].t = "absent" THEN None ELSE d[k]
\* dict.get(key, default): the default only when the key is missing
GetDefault(d, k, dflt) == IF d[k].t = "absent" THEN dflt ELSE d[k]

\* Python truthiness, as used by `or`, `not` and `if`
Truthy(v) ==
    CASE v.t = "int" -> v.n # 0
      [] v.t = "str" -> v.s # <<>>
      [] v.t = "list" -> v.l # <<>>
      [] OTHER -> FALSE
PyOr(a, b) == IF Truthy(a) THEN a ELSE b

(* String literals of the source, as code points *)
StrNA == <<78, 47, 65>>                       \* "N/A"
StrBRL == <<66, 82, 76>>                      \* "BRL"
StrNone == <<78, 111, 110, 101>>              \* "None"
StrProduto == <<80, 114, 111, 100, 117, 116, 111, 32>>   \* "Produto "
StrQuestion == <<63>>                         \* "?"
StrZeroRatio == <<48, 32, 47, 32, 48>>        \* "0 / 0"
StrSlash == <<32, 47, 32>>                    \* " / "
StrDash == <<32, 8212, 32>>                   \* " — " (U+2014)
StrCurrency == <<82, 36, 32>>                 \* "R$ "
StrEmptyDict == <<123, 125>>                  \* "{}"
StrUtcOffset == <<43, 48, 48, 58, 48, 48>>    \* "+00:00"

IsDigit(c) == c >= 48 /\ c <= 57

RECURSIVE IntStr(_)
\* str(i) of a non-negative int
IntStr(i) == IF i < 10 THEN <<48 + i>> ELSE IntStr(i \div 10) \o <<48 + (i % 10)>>

\* str(v)
PyToStr(v) ==
    CASE v.t = "int" -> IntStr(v.n)
      [] v.t = "str" -> v.s
      [] OTHER -> StrNone

(* ---------------------------------------------------------------------- *)
(* Utilities                                                               *)
(* ---------------------------------------------------------------------- *)
RECURSIVE ReplaceZ(_)
\* s.replace("Z", "+00:00")
ReplaceZ(cs) ==
    IF cs = <<>> THEN <<>>
    ELSE (IF Head(cs) = 90 THEN StrUtcOffset ELSE <<Head(cs)>>) \o ReplaceZ(Tail(cs))

Num2(cs, i) == (cs[i] - 48) * 10 + (cs[i + 1] - 48)
Num4(cs, i) == Num2(cs, i) * 100 + Num2(cs, i + 2)
IsLeap(y) == (y % 4 = 0 /\ y % 100 # 0) \/ y % 400 = 0
DaysInMonth(y, m) ==
    IF m = 2 THEN (IF IsLeap(y) THEN 29 ELSE 28)
    ELSE IF m \in {4, 6, 9, 11} THEN 30 ELSE 31

\* "YYYY-MM-DD" at the start of cs, a real calendar date
IsIsoDate(cs) ==
    /\ Len(cs) >= 10
    /\ \A i \in {1, 2, 3, 4, 6, 7, 9, 10} : IsDigit(cs[i])
    /\ cs[5] = 45 /\ cs[8] = 45
    /\ Num4(cs, 1) >= 1
    /\ Num2(cs, 6) \in 1..12
    /\ Num2(cs, 9) >= 1 /\ Num2(cs, 9) <= DaysInMonth(Num4(cs, 1), Num2(cs, 6))

\* "HH:MM" at position i of cs
IsIsoTime(cs, i) ==
    /\ Len(cs) >= i + 4
    /\ \A j \in {i, i + 1, i + 3, i + 4} : IsDigit(cs[j])
    /\ cs[i + 2] = 58
    /\ Num2(cs, i) <= 23 /\ Num2(cs, i + 3) <= 59

\* datetime.fromisoformat on the naive forms "YYYY-MM-DD" and
\* "YYYY-MM-DD?HH:MM": whether the string parses.  Forms with seconds or a
\* UTC offset are outside the inputs of this model.
FromIsoFormatOk(cs) ==
    \/ Len(cs) = 10 /\ IsIsoDate(cs)
    \/ Len(cs) = 16 /\ IsIsoDate(cs) /\ IsIsoTime(cs, 12)

\* dt.astimezone().strftime("%Y-%m-%d %H:%M") of a naive datetime: astimezone()
\* takes a naive value as local time, so the wall clock is kept.
StrfLocal(cs) ==
    SubSeq(cs, 1, 10) \o <<32>> \o
        (IF Len(cs) = 10 THEN <<48, 48, 58, 48, 48>> ELSE SubSeq(cs, 12, 16))

_fmt_dt_iso8601(value) ==
    IF ~Truthy(value) THEN StrNA
    ELSE LET cs == ReplaceZ(PyToStr(value))
         IN IF FromIsoFormatOk(cs) THEN StrfLocal(cs) ELSE PyToStr(value)

RECURSIVE _coalesce(_)
\* the first value that is neither None nor "", else the default "N/A"
_coalesce(vals) ==
    IF vals = <<>> THEN PyStr(StrNA)
    ELSE IF Head(vals).t # "none" /\ Head(vals) # PyStr(<<>>) THEN Head(vals)
    ELSE _coalesce(Tail(vals))

\* a faulty variant: U+FFFD as the replacement character instead of "?"
sanitize_text_fffd(text) ==
    IF text.t = "none" THEN <<>>
    ELSE LET cs == PyToStr(text)
         IN [i \in 1..Len(cs) |-> IF cs[i] > 255 THEN 65533 ELSE cs[i]]

\* str(text).encode("latin-1", "replace").decode("latin-1")
sanitize_text(text) ==
    IF text.t = "none" THEN <<>>
    ELSE LET cs == PyToStr(text)
         IN [i \in 1..Len(cs) |-> IF cs[i] > 255 THEN 63 ELSE cs[i]]

(* Amounts: exact rationals *)
Rat(a, b) == [num |-> a, den |-> b]
RatEq(x, y) == x.num * y.den = y.num * x.den

Pad2(i) == <<48 + (i \div 10), 48 + (i % 10)>>
Pad3(i) == <<48 + (i \div 100)>> \o Pad2(i % 100)
RECURSIVE Grouped(_)
\* "{:,}" with the separators swapped: thousands grouped by "."
Grouped(i) ==
    IF i < 1000 THEN IntStr(i) ELSE Grouped(i \div 1000) \o <<46>> \o Pad3(i % 1000)

\* f"R$ {v:,.2f}" with "," and "." swapped; v a non-negative amount,
\* rounded half to even at two decimals
_format_currency_brl(v) ==
    LET q == (v.num * 100) \div v.den
        r == (v.num * 100) % v.den
        cents == IF 2 * r > v.den \/ (2 * r = v.den /\ q % 2 = 1) THEN q + 1 ELSE q
    IN StrCurrency \o Grouped(cents \div 100) \o <<44>> \o Pad2(cents % 100)

(* ---------------------------------------------------------------------- *)
(* PDF: PDFWithBrand.table_row and generate_pdf_bytes                      *)
(* ---------------------------------------------------------------------- *)
\* One self.cell(w, h, text) call: lit is a literal of the source drawn as
\* it stands, txt the computed text that follows it, w the width in mm.
Cell(lit, txt, w) == [lit |-> lit, txt |-> txt, w |-> w]

\* table_row: every column text goes through sanitize_text, then cell()
table_row(cols) ==
    [i \in 1..Len(cols) |->
        Cell(cols[i].lit, sanitize_text(PyStr(cols[i].txt)), cols[i].w)]

RECURSIVE Pow10(_)
Pow10(k) == IF k = 0 THEN 1 ELSE 10 * Pow10(k - 1)
RECURSIVE DigitsValue(_)
DigitsValue(cs) ==
    IF cs = <<>> THEN 0 ELSE DigitsValue(SubSeq(cs, 1, Len(cs) - 1)) * 10 + (cs[Len(cs)] - 48)
Dots(cs) == {i \in 1..Len(cs) : cs[i] = 46}

\* float(s) for the plain decimal forms "123", "12.5", ".5", "5.": whether
\* it parses.  Signs, exponents, blanks, "inf" and "nan" are outside the
\* inputs of this model.
FloatOk(cs) ==
    /\ \A i \in 1..Len(cs) : IsDigit(cs[i]) \/ cs[i] = 46
    /\ Cardinality(Dots(cs)) <= 1
    /\ \E i \in 1..Len(cs) : IsDigit(cs[i])

FloatValue(cs) ==
    IF Dots(cs) = {} THEN Rat(DigitsValue(cs), 1)
    ELSE LET d == CHOOSE i \in Dots(cs) : TRUE
         IN Rat(DigitsValue(SubSeq(cs, 1, d - 1) \o SubSeq(cs, d + 1, Len(cs))),
                Pow10(Len(cs) - d))

\* a faulty variant: the integer is not taken as minor units
valor_pago_no_cents(settled_gross) ==
    IF settled_gross.t = "int" THEN Rat(settled_gross.n, 1)
    ELSE IF FloatOk(PyToStr(settled_gross)) THEN FloatValue(PyToStr(settled_gross))
    ELSE Rat(0, 1)

\* the try/except around the paid amount
valor_pago(settled_gross) ==
    IF settled_gross.t = "int" THEN Rat(settled_gross.n, 100)
    ELSE IF FloatOk(PyToStr(settled_gross)) THEN FloatValue(PyToStr(settled_gross))
    ELSE Rat(0, 1)

\* str(item.get("file_id", item.get("id", item))); an item with neither key
\* is the empty dict in this model
ItemIdent(item) ==
    IF item.file_id.t # "absent" THEN PyToStr(item.file_id)
    ELSE IF item.id.t # "absent" THEN PyToStr(item.id)
    ELSE StrEmptyDict

total_files(order) ==
    LET download_items ==
            PyOr(PyOr(Get(order, "download_items"), Get(order, "items")), PyList(<<>>))
    IN IF Truthy(download_items)
       THEN Cardinality({ItemIdent(download_items.l[i]) : i \in 1..Len(download_items.l)})
       ELSE 0

\* str(dl.get("file_id", dl.get("id", dl.get("product_id"))))
DownloadIdent(dl) ==
    PyToStr(GetDefault(dl, "file_id", GetDefault(dl, "id", Get(dl, "product_id"))))

baixados(downloads) ==
    IF Truthy(downloads)
    THEN Cardinality({DownloadIdent(downloads.l[i]) : i \in 1..Len(downloads.l)})
    ELSE 0

\* a faulty variant: the difference is not clamped at 0
faltantes_unclamped(total, baixado) == total - baixado

faltantes(total, baixado) == IF total - baixado > 0 THEN total - baixado ELSE 0

prop_reembolso(falt, total) ==
    IF total # 0 THEN IntStr(falt) \o StrSlash \o IntStr(total) ELSE StrZeroRatio

\* x / d of Python: ZeroDivisionError when d = 0
ZeroDivisionError == Rat(0, 0)
PyDiv(x, d) == IF d = 0 THEN ZeroDivisionError ELSE Rat(x.num, x.den * d)

\* a faulty variant: the division is not guarded by the total
valor_reembolso_unguarded(pago, falt, total) ==
    PyDiv(Rat(pago.num * falt, pago.den), total)

valor_reembolso(pago, falt, total) ==
    IF total # 0 THEN PyDiv(Rat(pago.num * falt, pago.den), total) ELSE Rat(0, 1)

\* the product cell of a download row
ProductName(dl) ==
    sanitize_text(_coalesce(<<Get(dl, "product_name"), Get(dl, "file_name"),
        PyStr(StrProduto \o PyToStr(GetDefault(dl, "product_id", PyStr(StrQuestion))))>>))

\* one row of the download table: "#", product, date, drawn with cell()
DownloadRow(i, dl) ==
    << Cell("", IntStr(i), 15),
       Cell("", ProductName(dl), 115),
       Cell("", _fmt_dt_iso8601(PyOr(Get(dl, "created_at"), Get(dl, "downloaded_at"))), 50) >>

RECURSIVE DownloadRows(_, _)
DownloadRows(dls, i) ==
    IF i > Len(dls) THEN <<>> ELSE DownloadRow(i, dls[i]) \o DownloadRows(dls, i + 1)

HistoryHeader ==
    << Cell("#", <<>>, 15), Cell("Nome do Produto", <<>>, 115),
       Cell("Data do Download", <<>>, 50) >>

\* a faulty variant: the table header is drawn for an empty list too
HistorySection_header_always(downloads) ==
    IF ~Truthy(downloads) THEN HistoryHeader
    ELSE HistoryHeader \o DownloadRows(downloads.l, 1)

\* the "Histórico de Downloads" section after its title
HistorySection(downloads) ==
    IF ~Truthy(downloads)
    THEN << Cell("Nenhum download registrado para este pedido.", <<>>, 0) >>
    ELSE HistoryHeader \o DownloadRows(downloads.l, 1)

generate_pdf_bytes(order, downloads, order_name_str) ==
    LET order_id == _coalesce(<<Get(order, "id")>>)
        created_at ==
            _fmt_dt_iso8601(PyOr(Get(order, "created_at"), Get(order, "created_at_iso")))
        buyer_email ==
            sanitize_text(_coalesce(<<Get(order, "buyer_email"), Get(order, "email")>>))
        buyer_ip ==
            sanitize_text(_coalesce(<<Get(order, "buyer_ip_address"), Get(order, "buyer_ip")>>))
        currency ==
            sanitize_text(_coalesce(<<Get(order, "currency"), Get(order, "currency_code"),
                                      PyStr(StrBRL)>>))
        settled_gross ==
            _coalesce(<<Get(order, "settled_gross"), Get(order, "settled_gross_cents")>>)
        pago == valor_pago(settled_gross)
        total == total_files(order)
        baixado == baixados(downloads)
        falt == faltantes(total, baixado)
        prop == prop_reembolso(falt, total)
        reembolso == valor_reembolso(pago, falt, total)
        title ==
            << Cell("Relatório do Pedido: ", sanitize_text(PyStr(order_name_str)), 0) >>
        order_rows ==
            << Cell("Dados do Pedido", <<>>, 0) >>
            \o table_row(<<Cell("ID do Pedido:", <<>>, 40), Cell("", PyToStr(order_id), 120)>>)
            \o table_row(<<Cell("Data da Compra:", <<>>, 40), Cell("", created_at, 120)>>)
            \o table_row(<<Cell("E-mail do Comprador:", <<>>, 40), Cell("", buyer_email, 120)>>)
            \o table_row(<<Cell("IP da Compra:", <<>>, 40), Cell("", buyer_ip, 120)>>)
            \o table_row(<<Cell("Moeda:", <<>>, 40), Cell("", currency, 120)>>)
            \o table_row(<<Cell("Valor Pago:", <<>>, 40),
                           Cell("", _format_currency_brl(pago), 120)>>)
        \* drawn only when the estimate above raised nothing
        refund_rows ==
            << Cell("Análise para Cancelamento/Reembolso", <<>>, 0) >>
            \o table_row(<<Cell("Arquivos Totais:", <<>>, 60), Cell("", IntStr(total), 100)>>)
            \o table_row(<<Cell("Arquivos Baixados:", <<>>, 60), Cell("", IntStr(baixado), 100)>>)
            \o table_row(<<Cell("Proporção p/ Reembolso:", <<>>, 60), Cell("", prop, 100)>>)
            \o table_row(<<Cell("Valor Reembolso (ilustrativo):", <<>>, 60),
                           Cell("", _format_currency_brl(reembolso), 100)>>)
        history == HistorySection(downloads)
        raised == reembolso = ZeroDivisionError
    IN [ raised |-> raised,
         valor_pago |-> pago,
         total_files |-> total,
         baixados |-> baixado,
         faltantes |-> falt,
         prop_reembolso |-> prop,
         valor_reembolso |-> reembolso,
         head |-> IF raised THEN <<>>
                  ELSE title \o order_rows \o refund_rows
                       \o << Cell("Histórico de Downloads", <<>>, 0) >>,
         history |-> IF raised THEN <<>> ELSE history ]

(* ---------------------------------------------------------------------- *)
(* API client (SendOwl)                                                    *)
(* ---------------------------------------------------------------------- *)
\* What requests.get gives back: a timeout (no response), or a status and a
\* body.  A body is [json, key, value]: json is the shape of the decoded
\* JSON ("dict", "list", "null", or "invalid" when it does not decode), key
\* tells whether a dict has the envelope key, value is what the envelope key
\* holds (or the body itself when there is no envelope).
Response(timeout, status, body) == [timeout |-> timeout, status |-> status, body |-> body]
Body(json, key, value) == [json |-> json, key |-> key, value |-> value]

\* the outcome of a call: the exception raised ("" when none) or the value
Raise(exc) == [raised |-> exc, value |-> None]
Return(v) == [raised |-> "", value |-> v]

\* r.raise_for_status(): HTTPError for 4xx and 5xx
RaisesForStatus(status) == status >= 400 /\ status <= 599

\* a faulty variant: a 404 is not told apart, the body is decoded anyway
fetch_order_no_404(r) ==
    IF r.timeout THEN Raise("Timeout")
    ELSE IF r.status # 404 /\ RaisesForStatus(r.status) THEN Raise("HTTPError")
    ELSE IF r.body.json = "invalid" THEN Raise("JSONDecodeError")
    ELSE IF r.body.json = "dict" /\ r.body.key THEN Return(r.body.value)
    ELSE Return(r.body.value)

\* one GET, no retry; {"order": {...}} is unwrapped one level
fetch_order(r) ==
    IF r.timeout THEN Raise("Timeout")
    ELSE IF r.status = 404 THEN Raise("ValueError")
    ELSE IF RaisesForStatus(r.status) THEN Raise("HTTPError")
    ELSE IF r.body.json = "invalid" THEN Raise("JSONDecodeError")
    ELSE IF r.body.json = "dict" /\ r.body.key THEN Return(r.body.value)
    ELSE Return(r.body.value)

\* one GET, no retry; [] on 404, data["downloads"] as it is, a bare list, else []
fetch_order_downloads(r) ==
    IF r.timeout THEN Raise("Timeout")
    ELSE IF r.status = 404 THEN Return(PyList(<<>>))
    ELSE IF RaisesForStatus(r.status) THEN Raise("HTTPError")
    ELSE IF r.body.json = "invalid" THEN Raise("JSONDecodeError")
    ELSE IF r.body.json = "dict" /\ r.body.key THEN Return(r.body.value)
    ELSE IF r.body.json = "list" THEN Return(r.body.value)
    ELSE Return(PyList(<<>>))

(* ---------------------------------------------------------------------- *)
(* Inputs                                                                  *)
(* ---------------------------------------------------------------------- *)
OrderKeys ==
    {"id", "created_at", "created_at_iso", "buyer_email", "email", "buyer_ip_address",
     "buyer_ip", "currency", "currency_code", "settled_gross", "settled_gross_cents",
     "download_items", "items"}
DownloadKeys ==
    {"file_id", "id", "product_id", "product_name", "file_name", "created_at",
     "downloaded_at"}

EmptyOrder == [k \in OrderKeys |-> Absent]
EmptyDownload == [k \in DownloadKeys |-> Absent]
Item(file_id, id) == [file_id |-> file_id, id |-> id]

\* all sequences over S of length at most n
SeqsUpTo(S, n) == UNION {[1..k -> S] : k \in 0..n}
\* sequences of indices in 1..K, of length at most n, in non-decreasing order
SortedIndexSeqs(K, n) ==
    {f \in SeqsUpTo(1..K, n) : \A i \in 1..(Len(f) - 1) : f[i] <= f[i + 1]}

(* Strings: "A", "é" (Latin-1) and the snowman U+2603 (not Latin-1) *)
Alphabet == {65, 233, 9731}
Strings == SeqsUpTo(Alphabet, MaxStrLen)
StrDate == <<50, 48, 50, 53, 45, 48, 57, 45, 51, 48>>             \* "2025-09-30"
StrDateTime == StrDate \o <<84, 49, 50, 58, 48, 53>>              \* "2025-09-30T12:05"
StrBadDate == <<50, 48, 50, 53, 45, 48, 50, 45, 51, 48>>          \* "2025-02-30"
StrOntem == <<111, 110, 116, 101, 109, 32, 9731>>                 \* "ontem ☃"
Timestamps == {StrDate, StrDateTime, StrBadDate, StrOntem}

(* Item lists of an order, up to the order of the items *)
ItemKindCount == 2 * MaxId + 2
ItemKind(k) ==
    IF k <= MaxId THEN Item(PyInt(k), Absent)
    ELSE IF k <= 2 * MaxId THEN Item(Absent, PyInt(k - MaxId))
    ELSE IF k = 2 * MaxId + 1 THEN Item(Absent, Absent)
    ELSE Item(PyInt(1), PyInt(2))
ItemList(f) == PyList([i \in 1..Len(f) |-> ItemKind(f[i])])
FewItemLists ==
    {Absent, None, PyList(<<>>), ItemList(<<1, 2>>), ItemList(<<1, 2, 3, 4>>)}

(* Download records for the estimate: the three identifier keys *)
IdValues == <<Absent, None, PyInt(1), PyInt(2)>>
ProductIdValues == <<Absent, PyInt(1), PyInt(2)>>
IdentKindCount == Len(IdValues) * Len(IdValues) * Len(ProductIdValues)
IdentKind(k) ==
    [EmptyDownload EXCEPT
        !["file_id"] = IdValues[((k - 1) % Len(IdValues)) + 1],
        !["id"] = IdValues[(((k - 1) \div Len(IdValues)) % Len(IdValues)) + 1],
        !["product_id"] = ProductIdValues[((k - 1) \div (Len(IdValues) * Len(IdValues))) + 1]]
IdentList(f) == PyList([i \in 1..Len(f) |-> IdentKind(f[i])])
Download(file_id) == [EmptyDownload EXCEPT !["file_id"] = file_id]
FewDownloadLists ==
    {PyList(<<>>), PyList(<<Download(PyInt(1))>>),
     PyList(<<Download(PyInt(1)), Download(PyInt(1))>>),
     PyList(<<Download(PyInt(1)), Download(PyInt(2)), Download(PyInt(3))>>)}

(* The settled-gross field: missing, null, empty, minor units, decimal
   strings "15.00", "7.5", "1500", ".5", and the unparseable "abc", "12,50" *)
StrAmount1500 == <<49, 53, 46, 48, 48>>
StrAmount75 == <<55, 46, 53>>
StrAmountInt == <<49, 53, 48, 48>>
StrAmountHalf == <<46, 53>>
StrAbc == <<97, 98, 99>>
StrComma == <<49, 50, 44, 53, 48>>
SettledValues ==
    {Absent, None, PyStr(<<>>), PyInt(0), PyInt(1500), PyInt(999),
     PyStr(StrAmount1500), PyStr(StrAmount75), PyStr(StrAmountInt), PyStr(StrAmountHalf),
     PyStr(StrAbc), PyStr(StrComma)}

OrderOf(settled_gross, settled_gross_cents, download_items, items) ==
    [EmptyOrder EXCEPT
        !["id"] = PyInt(7),
        !["settled_gross"] = settled_gross,
        !["settled_gross_cents"] = settled_gross_cents,
        !["download_items"] = download_items,
        !["items"] = items]

(* Download records for the table: a product part and a time part *)
ProductParts ==
    << [EmptyDownload EXCEPT !["product_name"] = PyStr(<<65, 9731>>)],
       [EmptyDownload EXCEPT !["product_name"] = PyStr(<<>>), !["file_name"] = PyStr(<<233>>)],
       [EmptyDownload EXCEPT !["product_id"] = PyInt(3)],
       EmptyDownload >>
TimeParts ==
    << [created_at |-> PyStr(StrDate), downloaded_at |-> Absent],
       [created_at |-> PyStr(StrOntem), downloaded_at |-> Absent],
       [created_at |-> None, downloaded_at |-> PyStr(StrDateTime)],
       [created_at |-> Absent, downloaded_at |-> Absent] >>
RowKindCount == Len(ProductParts) * Len(TimeParts)
RowKind(k) ==
    LET p == ProductParts[((k - 1) % Len(ProductParts)) + 1]
        w == TimeParts[((k - 1) \div Len(ProductParts)) + 1]
    IN [p EXCEPT !["created_at"] = w.created_at, !["downloaded_at"] = w.downloaded_at]
RowList(f) == PyList([i \in 1..Len(f) |-> RowKind(f[i])])

FieldValues == {None, PyInt(12)} \cup {PyStr(cs) : cs \in Strings \cup Timestamps}
TextKeys == OrderKeys \ {"settled_gross", "settled_gross_cents", "download_items", "items"}

(* The upstream's answers in the flow *)
Statuses == {200, 401, 404, 500, 502, 503, 504}
FlowOrders ==
    {EmptyOrder,
     OrderOf(PyInt(1500), Absent, ItemList(<<1, 2, 3, 4>>), Absent),
     [OrderOf(PyStr(StrAmount75), Absent, Absent, ItemList(<<1>>))
        EXCEPT !["buyer_email"] = PyStr(<<65, 9731>>), !["created_at"] = PyStr(StrDate)]}
FlowDownloadLists == FewDownloadLists \cup {RowList(<<2>>)}
NoBody == Body("invalid", FALSE, None)
OrderBodies ==
    {Body("dict", k, o) : k \in BOOLEAN, o \in FlowOrders}
    \cup {Body("null", FALSE, None), NoBody}
DownloadBodies ==
    {Body("dict", TRUE, v) : v \in FlowDownloadLists \cup {None}}
    \cup {Body("list", FALSE, v) : v \in FlowDownloadLists}
    \cup {Body("dict", FALSE, None), Body("null", FALSE, None), NoBody}
Responses(bodies) ==
    {Response(TRUE, 0, NoBody)}
    \cup {Response(FALSE, s, b) : s \in Statuses, b \in bodies}

(* ---------------------------------------------------------------------- *)
(* State                                                                   *)
(* ---------------------------------------------------------------------- *)
VARIABLES
    pc,          \* where the script (or the function under check) stands
    http,        \* the GETs issued so far, each with the answer it got
    order,       \* the order: fetched by build_ui, or the argument
    order_json,  \* the JSON shape of what fetch_order returned
    downloads,   \* the downloads: fetched by build_ui, or the argument
    name,        \* order_name_str
    ui,          \* what Streamlit has displayed, in order
    pdf,         \* what generate_pdf_bytes computed and drew
    text,        \* the argument of sanitize_text
    out1,        \* sanitize_text(text)
    out2         \* sanitize_text(sanitize_text(text))

vars == <<pc, http, order, order_json, downloads, name, ui, pdf, text, out1, out2>>

NoPdf ==
    [raised |-> FALSE, valor_pago |-> Rat(0, 1), total_files |-> 0, baixados |-> 0,
     faltantes |-> 0, prop_reembolso |-> <<>>, valor_reembolso |-> Rat(0, 1),
     head |-> <<>>, history |-> <<>>]

Shown(w, exc) == [w |-> w, exc |-> exc]
Get_(endpoint, r) ==
    [endpoint |-> endpoint, timeout |-> r.timeout, status |-> r.status,
     json |-> r.body.json, key |-> r.body.key]

(* ---------------------------------------------------------------------- *)
(* build_ui: one run of the script after the button is clicked             *)
(* ---------------------------------------------------------------------- *)
InitFlow ==
    /\ pc = "idle"
    /\ http = <<>>
    /\ order = EmptyOrder
    /\ order_json = "null"
    /\ downloads = None
    /\ name = <<>>
    /\ ui = <<>>
    /\ pdf = NoPdf
    /\ text = None
    /\ out1 = <<>>
    /\ out2 = <<>>

\* the button is clicked; without both credentials the run ends with an error
Click ==
    /\ pc = "idle"
    /\ \E has_credentials \in BOOLEAN :
        IF has_credentials
        THEN pc' = "fetch_order" /\ ui' = ui
        ELSE pc' = "done" /\ ui' = Append(ui, Shown("error", "credentials"))
    /\ UNCHANGED <<http, order, order_json, downloads, name, pdf, text, out1, out2>>

\* order = fetch_order(order_id, headers); any exception ends the run in st.error
FetchOrder ==
    /\ pc = "fetch_order"
    /\ \E r \in Responses(OrderBodies) :
        LET res == fetch_order(r)
        IN /\ http' = Append(http, Get_("order", r))
           /\ IF res.raised # ""
              THEN /\ ui' = Append(ui, Shown("error", res.raised))
                   /\ pc' = "done"
                   /\ UNCHANGED <<order, order_json>>
              ELSE /\ ui' = ui
                   /\ pc' = "fetch_downloads"
                   /\ order_json' = r.body.json
                   /\ order' = IF r.body.json = "dict" THEN res.value ELSE EmptyOrder
    /\ UNCHANGED <<downloads, name, pdf, text, out1, out2>>

\* downloads = fetch_order_downloads(order_id, headers)
FetchDownloads ==
    /\ pc = "fetch_downloads"
    /\ \E r \in Responses(DownloadBodies) :
        LET res == fetch_order_downloads(r)
        IN /\ http' = Append(http, Get_("downloads", r))
           /\ IF res.raised # ""
              THEN /\ ui' = Append(ui, Shown("error", res.raised))
                   /\ pc' = "done"
                   /\ UNCHANGED downloads
              ELSE /\ ui' = ui
                   /\ pc' = "render"
                   /\ downloads' = res.value
    /\ UNCHANGED <<order, order_json, name, pdf, text, out1, out2>>

\* the summary, the table of downloads and the PDF button
Render ==
    /\ pc = "render"
    /\ pc' = "done"
    /\ IF order_json # "dict"
       THEN \* order.get on None: AttributeError, caught by `except Exception`
            /\ ui' = ui \o <<Shown("success", ""), Shown("error", "AttributeError")>>
            /\ UNCHANGED <<name, pdf>>
       ELSE LET order_name_str ==
                    PyToStr(_coalesce(<<Get(order, "id")>>)) \o StrDash
                    \o PyToStr(_coalesce(<<Get(order, "buyer_email"), Get(order, "email"),
                                           PyStr(<<>>)>>))
                p == generate_pdf_bytes(order, downloads, order_name_str)
            IN /\ name' = order_name_str
               /\ pdf' = p
               /\ ui' = ui \o <<Shown("success", ""), Shown("metric", ""),
                                Shown(IF Truthy(downloads) THEN "dataframe" ELSE "warning", ""),
                                IF p.raised THEN Shown("error", "pdf")
                                ELSE Shown("download_button", "")>>
    /\ UNCHANGED <<http, order, order_json, downloads, text, out1, out2>>

\* any later interaction runs the script again from the top
Rerun ==
    /\ pc = "done"
    /\ pc' = "idle"
    /\ http' = <<>>
    /\ order' = EmptyOrder
    /\ order_json' = "null"
    /\ downloads' = None
    /\ name' = <<>>
    /\ ui' = <<>>
    /\ pdf' = NoPdf
    /\ UNCHANGED <<text, out1, out2>>

Init == InitFlow
Next == Click \/ FetchOrder \/ FetchDownloads \/ Render \/ Rerun
Spec == Init /\ [][Next]_vars

(* ---------------------------------------------------------------------- *)
(* generate_pdf_bytes on its own                                           *)
(* ---------------------------------------------------------------------- *)
PdfInput(o, d, n) ==
    /\ pc = "input"
    /\ order = o
    /\ downloads = d
    /\ name = n
    /\ order_json = "dict"
    /\ http = <<>>
    /\ ui = <<>>
    /\ pdf = NoPdf
    /\ text = None
    /\ out1 = <<>>
    /\ out2 = <<>>

GeneratePdf ==
    /\ pc = "input"
    /\ pc' = "done"
    /\ pdf' = generate_pdf_bytes(order, downloads, name)
    /\ UNCHANGED <<http, order, order_json, downloads, name, ui, text, out1, out2>>

\* the inputs of the refund estimate: one of the three parts varies widely
InitEstimate ==
    \/ \E f \in SortedIndexSeqs(ItemKindCount, MaxId), d \in FewDownloadLists :
            PdfInput(OrderOf(PyInt(1500), Absent, ItemList(f), Absent), d, <<65>>)
    \/ \E l \in {Absent, ItemList(<<1, 2>>)},
           f \in SortedIndexSeqs(IdentKindCount, MaxDownloads) :
            PdfInput(OrderOf(PyInt(1500), Absent, PyList(<<>>), l), IdentList(f), <<65>>)
    \/ \E g \in SettledValues, c \in {Absent, PyInt(250)}, l \in FewItemLists,
           d \in FewDownloadLists :
            PdfInput(OrderOf(g, c, l, Absent), d, <<65>>)
NextEstimate == GeneratePdf
SpecEstimate == InitEstimate /\ [][NextEstimate]_vars

\* the inputs of the layout: each text field of the order, the title, the
\* download lists, and one download with any product name and timestamp
InitRender ==
    \/ \E k \in TextKeys, v \in FieldValues, d \in {PyList(<<>>), RowList(<<1>>)} :
            PdfInput([EmptyOrder EXCEPT ![k] = v], d, <<65>>)
    \/ \E cs \in Strings : PdfInput(EmptyOrder, PyList(<<>>), cs)
    \/ \E f \in SeqsUpTo(1..RowKindCount, MaxDownloads) :
            PdfInput([EmptyOrder EXCEPT !["id"] = PyInt(7)], RowList(f), <<65>>)
    \/ \E a \in Strings, b \in Strings \cup Timestamps :
            PdfInput(EmptyOrder,
                     PyList(<<[EmptyDownload EXCEPT !["product_name"] = PyStr(a),
                                                     !["created_at"] = PyStr(b)]>>),
                     <<65>>)
NextRender == GeneratePdf
SpecRender == InitRender /\ [][NextRender]_vars

(* ---------------------------------------------------------------------- *)
(* sanitize_text on its own                                                *)
(* ---------------------------------------------------------------------- *)
SanitizeAlphabet == {63, 65, 233, 255, 256, 9731}
Texts ==
    {None, PyInt(12)} \cup {PyStr(cs) : cs \in SeqsUpTo(SanitizeAlphabet, MaxStrLen)}

InitSanitize ==
    /\ pc = "input"
    /\ text \in Texts
    /\ out1 = <<>>
    /\ out2 = <<>>
    /\ http = <<>>
    /\ order = EmptyOrder
    /\ order_json = "null"
    /\ downloads = None
    /\ name = <<>>
    /\ ui = <<>>
    /\ pdf = NoPdf

Sanitize ==
    /\ pc = "input"
    /\ pc' = "once"
    /\ out1' = sanitize_text(text)
    /\ UNCHANGED <<http, order, order_json, downloads, name, ui, pdf, text, out2>>

SanitizeAgain ==
    /\ pc = "once"
    /\ pc' = "twice"
    /\ out2' = sanitize_text(PyStr(out1))
    /\ UNCHANGED <<http, order, order_json, downloads, name, ui, pdf, text, out1>>

NextSanitize == Sanitize \/ SanitizeAgain
SpecSanitize == InitSanitize /\ [][NextSanitize]_vars

(* ====================================================================== *)
(* Properties                                                              *)
(* ====================================================================== *)
Cells == pdf.head \o pdf.history
Latin1(cs) == \A i \in 1..Len(cs) : cs[i] <= 255
Errors == {i \in 1..Len(ui) : ui[i].w = "error"}
Offered == \E i \in 1..Len(ui) : ui[i].w = "download_button"
OrderAnswered404 ==
    Len(http) >= 1 /\ http[1].endpoint = "order" /\ ~http[1].timeout /\ http[1].status = 404

\* C1: when the upstream answers 404 to the order fetch, fetch_order raises
\* the not-found error (ValueError) and the run ends there: the downloads are
\* never requested, generate_pdf_bytes is never called, no download button is
\* offered, and the one thing displayed is the error message.
C1_NotFoundEndsTheRun ==
    OrderAnswered404 =>
        /\ pc = "done"
        /\ Len(http) = 1
        /\ pdf = NoPdf
        /\ ~Offered
        /\ ui = <<Shown("error", "ValueError")>>

C1_Witness == OrderAnswered404 /\ pc = "done"

ServerErrors == {500, 502, 503, 504}
GetsTo(endpoint) == Cardinality({i \in 1..Len(http) : http[i].endpoint = endpoint})

\* C2: a GET answered 500/502/503/504 is issued again, and the failure
\* reaches the caller only after 3 to 4 attempts; a GET answered 4xx is
\* issued exactly once.
C2_ServerErrorsAreRetried ==
    (pc = "done" /\ Len(http) >= 1 /\ ~http[Len(http)].timeout) =>
        LET last == http[Len(http)]
        IN /\ (last.status \in ServerErrors /\ Errors # {}) => GetsTo(last.endpoint) \in 3..4
           /\ (last.status \in 400..499) => GetsTo(last.endpoint) = 1

\* C3: every text that generate_pdf_bytes hands to a cell-drawing call has
\* passed through sanitize_text, so it is what sanitize_text makes of it
\* (Latin-1 only), unparseable timestamps included.
C3_EveryCellSanitized ==
    pc = "done" =>
        \A i \in 1..Len(Cells) : Cells[i].txt = sanitize_text(PyStr(Cells[i].txt))

DownloadsAnswer(i) == http[i].endpoint = "downloads" /\ ~http[i].timeout
FetchErrors == {"Timeout", "HTTPError", "JSONDecodeError", "ValueError"}

\* C4: for a 404 or a 2xx answer fetch_order_downloads yields a list and raises
\* nothing: the empty list on 404, and for a 2xx body that is neither an
\* object with "downloads" nor a list.
C4_DownloadsAlwaysAList ==
    \A i \in 1..Len(http) :
        (DownloadsAnswer(i) /\ http[i].status \in ({404} \cup 200..299)) =>
            /\ \A j \in Errors : ui[j].exc \notin FetchErrors
            /\ downloads.t = "list"
            /\ (http[i].status = 404 => downloads.l = <<>>)
            /\ (http[i].status # 404 /\ http[i].json = "null" => downloads.l = <<>>)
            /\ (http[i].status # 404 /\ http[i].json = "dict" /\ ~http[i].key
                    => downloads.l = <<>>)

\* C5: the Download History section is, for an empty downloads list, the
\* one-line "no downloads" message alone (no header, no rows, no error); for
\* a list of n records it is the header once, then one row per record in
\* input order, numbered 1..n.
C5_HistorySection ==
    (pc = "done" /\ downloads.t = "list") =>
        LET n == Len(downloads.l)
            h == pdf.history
        IN /\ ~pdf.raised
           /\ n = 0 => h = <<Cell("Nenhum download registrado para este pedido.", <<>>, 0)>>
           /\ n > 0 =>
                /\ Len(h) = 3 + 3 * n
                /\ <<h[1].lit, h[2].lit, h[3].lit>> = <<"#", "Nome do Produto", "Data do Download">>
                /\ \A i \in 4..Len(h) : h[i].lit = ""
                /\ \A i \in 1..n :
                    /\ h[3 * i + 1].txt = <<48 + i>>
                    /\ h[3 * i + 2].txt = ProductName(downloads.l[i])
                    /\ h[3 * i + 3].txt =
                        _fmt_dt_iso8601(PyOr(Get(downloads.l[i], "created_at"),
                                             Get(downloads.l[i], "downloaded_at")))

C5_Witness ==
    /\ pc = "done"
    /\ downloads.t = "list"
    /\ Len(downloads.l) = 2
    /\ ProductName(downloads.l[1]) # ProductName(downloads.l[2])
    /\ Len(pdf.history) = 9

SettledGross == _coalesce(<<Get(order, "settled_gross"), Get(order, "settled_gross_cents")>>)
\* the decimal strings of the inputs, with their value in hundredths
DecimalCases ==
    {<<StrAmount1500, 1500>>, <<StrAmount75, 750>>, <<StrAmountInt, 150000>>,
     <<StrAmountHalf, 50>>}
Unparseable == {PyStr(StrNA), PyStr(StrAbc), PyStr(StrComma)}

\* C6: the paid amount is settled_gross / 100 for an integer, the parsed
\* decimal for a decimal string, 0 when missing or unparseable (the report
\* is still drawn); the refund is paid * missing / total when total > 0;
\* 1500 with 4 files and 1 downloaded gives 15.00, 3 missing, 11.25.
C6_PaidAmountAndRefund ==
    pc = "done" =>
        /\ SettledGross.t = "int" => RatEq(pdf.valor_pago, Rat(SettledGross.n, 100))
        /\ \A c \in DecimalCases :
            SettledGross = PyStr(c[1]) => RatEq(pdf.valor_pago, Rat(c[2], 100))
        /\ SettledGross \in Unparseable =>
            /\ pdf.valor_pago.den # 0 /\ pdf.valor_pago.num = 0
            /\ ~pdf.raised /\ pdf.head # <<>>
        /\ pdf.total_files > 0 =>
            /\ pdf.valor_reembolso.den # 0
            /\ pdf.valor_reembolso.num * pdf.valor_pago.den * pdf.total_files
                 = pdf.valor_pago.num * pdf.faltantes * pdf.valor_reembolso.den
        /\ (SettledGross = PyInt(1500) /\ pdf.total_files = 4 /\ pdf.baixados = 1) =>
            /\ RatEq(pdf.valor_pago, Rat(15, 1))
            /\ pdf.faltantes = 3
            /\ RatEq(pdf.valor_reembolso, Rat(1125, 100))

C6_Witness ==
    /\ pc = "done"
    /\ SettledGross = PyInt(1500)
    /\ pdf.total_files = 4
    /\ pdf.baixados = 1
    /\ RatEq(pdf.valor_reembolso, Rat(1125, 100))

\* C7: the missing-files count is max(totalFiles - downloadedFiles, 0): never
\* negative, never above totalFiles, 0 whenever downloadedFiles >= totalFiles.
C7_MissingIsClamped ==
    pc = "done" =>
        /\ pdf.faltantes >= 0
        /\ pdf.faltantes <= pdf.total_files
        /\ pdf.baixados >= pdf.total_files => pdf.faltantes = 0
        /\ pdf.baixados < pdf.total_files => pdf.faltantes = pdf.total_files - pdf.baixados

C7_Witness ==
    pc = "done" /\ pdf.total_files > 0 /\ pdf.baixados > pdf.total_files /\ pdf.faltantes = 0

NoItems == ~Truthy(Get(order, "download_items")) /\ ~Truthy(Get(order, "items"))
StrZeroAmount == <<82, 36, 32, 48, 44, 48, 48>>     \* "R$ 0,00"
RowValue(label) ==
    {pdf.head[i + 1].txt : i \in {j \in 1..(Len(pdf.head) - 1) : pdf.head[j].lit = label}}

\* C8: an order whose download-items list is absent or empty has totalFiles 0,
\* the ratio "0 / 0" and the refund 0, whatever the downloads and the paid
\* amount; nothing is divided by zero and the refund rows are drawn so.
C8_NoFilesGivesZeroRefund ==
    (pc = "done" /\ NoItems) =>
        /\ pdf.total_files = 0
        /\ pdf.prop_reembolso = StrZeroRatio
        /\ pdf.valor_reembolso # ZeroDivisionError
        /\ pdf.valor_reembolso.num = 0
        /\ ~pdf.raised
        /\ RowValue("Proporção p/ Reembolso:") = {StrZeroRatio}
        /\ RowValue("Valor Reembolso (ilustrativo):") = {StrZeroAmount}

C8_Witness ==
    pc = "done" /\ NoItems /\ pdf.baixados = 2 /\ pdf.valor_pago.num > 0

\* C9: sanitize_text is idempotent, and what it returns is inside Latin-1.
C9_SanitizeIdempotent ==
    pc = "twice" => out2 = out1 /\ Latin1(out1)

C9_Witness ==
    pc = "twice" /\ text.t = "str" /\ \E i \in 1..Len(text.s) : text.s[i] > 255

HasValue(v) == v.t # "absent" /\ v.t # "none"
\* the identifier the claim gives a download record
ClaimedIdent(dl) ==
    IF HasValue(dl.file_id) THEN dl.file_id
    ELSE IF HasValue(dl.id) THEN dl.id
    ELSE Get(dl, "product_id")

\* C10: downloadedFiles is the number of distinct identifiers of the downloads
\* list, a record's identifier being its file_id if it has one, else its id,
\* else its product_id, also when file_id or id is present without a value.
C10_DistinctIdentifiers ==
    (pc = "done" /\ downloads.t = "list") =>
        pdf.baixados =
            Cardinality({ClaimedIdent(downloads.l[i]) : i \in 1..Len(downloads.l)})

====
